---------------------------- MODULE Spec2Model ----------------------------
(***************************************************************************)
(* Model of package.py: the File / Node / Layer status resolution and the  *)
(* merge / unmerge / force_out / force_in transitions over the home tree.  *)
(*                                                                         *)
(* The filesystem is modelled per tracked relative path: what lies at the  *)
(* target (HOME/rel_path) and what each layer keeps at                     *)
(* <layer>/home/rel_path.  Every command (one method call) is one action.  *)
(***************************************************************************)
EXTENDS Integers, Sequences, FiniteSets, TLC

\* ------------------------------------------------------------------ bounds
NumLayers == 2        \* layers, constructed in the order 1..NumLayers
RecursionLimit == 3   \* depth at which the interpreter raises RecursionError
NumHooks == 1         \* merge hooks of every layer

Layers == 1..NumLayers

\* The normalized relative paths that layers may supply, in the order os.walk
\* meets them.  The two paths are interchangeable and a command reads the
\* node order of one layer only, so one walk order stands for both.
WalkOrder == <<"a", "b">>
Files == {WalkOrder[i] : i \in DOMAIN WalkOrder}

\* File contents.  The sources of one path hold at most NumLayers different
\* contents and the target at most one more.
Contents == 1..(NumLayers + 1)

\* Answers typed at the 'Proceed? [Y/n]' prompt.
Answers == {"", "no", "NO"}

VARIABLES
    nodes,      \* File.nodes: per relative path, the layers bound to it, in creation order
    lnodes,     \* Layer.nodes: per layer, its relative paths in enumeration order
    source,     \* content of <layer>/home/<rel_path>; 0 when the layer has no such file
    target,     \* what lies at HOME/<rel_path>
    last,       \* the last command, the status it computed first, and how it ended
    files,      \* Files.files: the File objects in creation order
    layers      \* the list 'layers' of the main block: the layers constructed

vars == <<nodes, lnodes, source, target, last, files, layers>>

\* ------------------------------------------------------- filesystem values
\* A path a symbolic link can hold, for the relative path of the target it
\* lies at: the source path of a layer (spelled normalized, or with a
\* redundant "./" component), some other existing regular file, or a path
\* at which nothing exists.
LinkPaths ==
    [root : {"layer"}, layer : Layers, dot : BOOLEAN]
        \cup {[root |-> "other", layer |-> 0, dot |-> FALSE],
              [root |-> "gone", layer |-> 0, dot |-> FALSE]}

NoPath == [root |-> "none", layer |-> 0, dot |-> FALSE]

Absent == [kind |-> "absent", content |-> 0, dest |-> NoPath]
RegularFile(c) == [kind |-> "file", content |-> c, dest |-> NoPath]
Symlink(p) == [kind |-> "link", content |-> 0, dest |-> p]

TargetStates ==
    {Absent} \cup {RegularFile(c) : c \in Contents} \cup {Symlink(p) : p \in LinkPaths}

\* os.path.normpath on the paths above: the redundant "./" is dropped.
normpath(p) == [p EXCEPT !.dot = FALSE]

\* Node.path: os.path.join(layer.node_root, file_.rel_path), already normalized.
node_path(l) == [root |-> "layer", layer |-> l, dot |-> FALSE]

\* os.path.isfile(self.file.path): follows a symbolic link, and is False for
\* a link whose destination does not exist.
isfile(tg, f) ==
    \/ tg[f].kind = "file"
    \/ /\ tg[f].kind = "link"
       /\ \/ tg[f].dest.root = "other"
          \/ /\ tg[f].dest.root = "layer"
             /\ source[<<tg[f].dest.layer, f>>] # 0

\* os.readlink(self.file.path) under try/except: the link's text, or None.
readlink(tg, f) == IF tg[f].kind = "link" THEN tg[f].dest ELSE NoPath

\* A comparison that follows a symbolic link to the file it names.
git_diff_following_links(tg, l, f) ==
    \/ /\ tg[f].kind = "file"
       /\ tg[f].content = source[<<l, f>>]
    \/ /\ tg[f].kind = "link"
       /\ tg[f].dest.root = "layer"
       /\ source[<<tg[f].dest.layer, f>>] = source[<<l, f>>]

\* git_diff(self.path, self.file.path): 'git diff --no-index' prints nothing
\* iff both are regular files of the same content; it does not follow a
\* symbolic link, which always differs from a regular file.
git_diff(tg, l, f) ==
    /\ tg[f].kind = "file"
    /\ tg[f].content = source[<<l, f>>]


\* ------------------------------------------------------------ Node status
RECURSIVE Node_get_status(_, _, _, _)
RECURSIVE scan_siblings(_, _, _, _, _)

\* A fourth case that takes a sibling to own the target only when the target
\* is a link to that sibling, without asking the sibling for its status.
scan_siblings_links_only(tg, f, l, i, d) ==
    IF \E j \in i..Len(nodes[f]) :
          /\ nodes[f][j] # l
          /\ readlink(tg, f) # NoPath
          /\ normpath(readlink(tg, f)) = normpath(node_path(nodes[f][j]))
    THEN "O" ELSE "!"

\* The loop of the fourth case: 'for n in self.file.nodes', from index i on.
\* A sibling's own get_status() runs one frame deeper.
scan_siblings(tg, f, l, i, d) ==
    IF i > Len(nodes[f]) THEN "!"
    ELSE IF nodes[f][i] = l THEN scan_siblings(tg, f, l, i + 1, d)
    ELSE LET s == Node_get_status(tg, f, nodes[f][i], d - 1)
         IN  IF s = "RecursionError" THEN s
             ELSE IF s \in {"C", "S"} THEN "O"
             ELSE scan_siblings(tg, f, l, i + 1, d)

\* Node.get_status with d frames left before the interpreter's recursion
\* limit: a status letter, or "RecursionError" when the call raises.
Node_get_status(tg, f, l, d) ==
    IF d = 0 THEN "RecursionError"
    ELSE IF ~isfile(tg, f) THEN "N"
    ELSE IF /\ readlink(tg, f) # NoPath
            /\ normpath(readlink(tg, f)) = normpath(node_path(l)) THEN "S"
    ELSE IF git_diff(tg, l, f) THEN "C"
    ELSE scan_siblings(tg, f, l, 1, d)

\* ------------------------------------------------------- Node transitions
\* Each returns the home tree it leaves and how the call ended: "ok", or the
\* exception it raised.
Raised(tg, e) == [tg |-> tg, res |-> e]
Returned(tg) == [tg |-> tg, res |-> "ok"]

\* Node.unmerge with 'O' let through the safety check.
Node_unmerge_owned_allowed(tg, f, l) ==
    LET status == Node_get_status(tg, f, l, RecursionLimit)
    IN  IF status = "RecursionError" THEN Raised(tg, status)
        ELSE IF status \notin {"C", "S", "N", "O"} THEN Raised(tg, "NotSupported")
        ELSE IF status = "N" THEN Returned(tg)
        ELSE Returned([tg EXCEPT ![f] = Absent])

Node_unmerge(tg, f, l) ==
    LET status == Node_get_status(tg, f, l, RecursionLimit)
    IN  IF status = "RecursionError" THEN Raised(tg, status)
        ELSE IF status \notin {"C", "S", "N"} THEN Raised(tg, "NotSupported")
        ELSE IF status = "N" THEN Returned(tg)
        ELSE Returned([tg EXCEPT ![f] = Absent])          \* os.remove

\* A copy of the source put at the target instead of a link to it.
symlink_as_copy(tg, f, l) ==
    IF tg[f].kind # "absent" THEN Raised(tg, "FileExistsError")
    ELSE Returned([tg EXCEPT ![f] = RegularFile(source[<<l, f>>])])

\* os.symlink(self.path, self.file.path): fails when anything lies at the target.
symlink(tg, f, l) ==
    IF tg[f].kind # "absent" THEN Raised(tg, "FileExistsError")
    ELSE Returned([tg EXCEPT ![f] = Symlink(node_path(l))])

Node_merge(tg, f, l) ==
    LET status == Node_get_status(tg, f, l, RecursionLimit)
    IN  IF status = "RecursionError" THEN Raised(tg, status)
        ELSE IF status \notin {"C", "S", "N"} THEN Raised(tg, "NotSupported")
        ELSE IF status = "S" THEN Returned(tg)
        ELSE LET u == Node_unmerge(tg, f, l)
             IN  IF u.res # "ok" THEN u
                 ELSE symlink(u.tg, f, l)   \* makedirs(exist_ok=True), then the link

\* The answers that abort, compared without regard to case.
Declines_any_case(confirm) == confirm \in {"n", "N", "No", "no", "NO", "nO"}

\* The answers that abort a force operation.
Declines(confirm) == confirm \in {"n", "N", "No", "no"}

\* The outcome r of a force operation, with whether input() was called.
Prompted(r, asked) == [tg |-> r.tg, res |-> r.res, asked |-> asked]

\* force_out with the status test widened to let an Identical Node through.
Node_force_out_identical(tg, f, l, confirm) ==
    LET status == Node_get_status(tg, f, l, RecursionLimit)
    IN  IF status = "RecursionError" THEN Prompted(Raised(tg, status), FALSE)
        ELSE IF status \notin {"!", "C"} THEN Prompted(Raised(tg, "NotSupported"), FALSE)
        ELSE IF Declines(confirm) THEN Prompted(Returned(tg), TRUE)
        ELSE Prompted(symlink([tg EXCEPT ![f] = Absent], f, l), TRUE)

Node_force_out(tg, f, l, confirm) ==
    LET status == Node_get_status(tg, f, l, RecursionLimit)
    IN  IF status = "RecursionError" THEN Prompted(Raised(tg, status), FALSE)
        ELSE IF status # "!" THEN Prompted(Raised(tg, "NotSupported"), FALSE)
        ELSE IF Declines(confirm) THEN Prompted(Returned(tg), TRUE)
        ELSE Prompted(Node_merge([tg EXCEPT ![f] = Absent], f, l), TRUE)
                                                       \* os.remove, then merge

\* force_in: os.path.readlink does not exist (the AttributeError is swallowed
\* by the except clause), and self.package is no attribute of a Node, so
\* os.remove(self.package) raises before any file is touched.
Node_force_in(tg, f, l, confirm) ==
    LET status == Node_get_status(tg, f, l, RecursionLimit)
    IN  IF status = "RecursionError" THEN Prompted(Raised(tg, status), FALSE)
        ELSE IF status # "!" THEN Prompted(Raised(tg, "NotSupported"), FALSE)
        ELSE IF Declines(confirm) THEN Prompted(Returned(tg), TRUE)
        ELSE Prompted(Raised(tg, "AttributeError"), TRUE)

\* ------------------------------------------------------------------ Layer
RECURSIVE Layer_scan_first_wins(_, _, _, _)
\* Layer.get_status returning at the first Node that is not Symlinked.
Layer_scan_first_wins(tg, l, i, status) ==
    IF i > Len(lnodes[l]) THEN status
    ELSE LET s == Node_get_status(tg, lnodes[l][i], l, RecursionLimit)
         IN  IF s = "RecursionError" THEN s
             ELSE IF s = "N" THEN "N"
             ELSE IF s = "!" THEN "N"
             ELSE IF s = "O" THEN "O"
             ELSE IF s = "S" THEN Layer_scan_first_wins(tg, l, i + 1, status)
             ELSE "C"

RECURSIVE Layer_scan(_, _, _, _)
\* The loop of Layer.get_status from index i on, with the running status.
Layer_scan(tg, l, i, status) ==
    IF i > Len(lnodes[l]) THEN status
    ELSE LET s == Node_get_status(tg, lnodes[l][i], l, RecursionLimit)
         IN  IF s = "RecursionError" THEN s
             ELSE IF s = "N" THEN "N"
             ELSE IF s = "!" THEN "N"
             ELSE IF s = "O" THEN "O"
             ELSE IF s = "S" THEN Layer_scan(tg, l, i + 1, status)
             ELSE Layer_scan(tg, l, i + 1, "C")

Layer_get_status(tg, l) == Layer_scan(tg, l, 1, "S")

\* Layer.merge_hooks, in enumeration order.
merge_hooks(l) == [i \in 1..NumHooks |-> <<l, i>>]

RECURSIVE merge_nodes(_, _, _)
\* 'for f in self.nodes: f.merge()' from index i on: stops at the first raise.
merge_nodes(tg, l, i) ==
    IF i > Len(lnodes[l]) THEN Returned(tg)
    ELSE LET r == Node_merge(tg, lnodes[l][i], l)
         IN  IF r.res # "ok" THEN r ELSE merge_nodes(r.tg, l, i + 1)

RECURSIVE unmerge_nodes(_, _, _)
unmerge_nodes(tg, l, i) ==
    IF i > Len(lnodes[l]) THEN Returned(tg)
    ELSE LET r == Node_unmerge(tg, lnodes[l][i], l)
         IN  IF r.res # "ok" THEN r ELSE unmerge_nodes(r.tg, l, i + 1)

\* Layer.merge running its hooks whether or not the Nodes were merged.
Layer_merge_hooks_always(tg, l) ==
    LET status == Layer_get_status(tg, l)
        none == [tg |-> tg, hooks |-> <<>>]
    IN  IF status = "RecursionError" THEN none @@ [res |-> status]
        ELSE IF status \notin {"C", "S", "N"} THEN none @@ [res |-> "NotSupported"]
        ELSE IF status = "S" THEN none @@ [res |-> "ok"]
        ELSE merge_nodes(tg, l, 1) @@ [hooks |-> merge_hooks(l)]

\* Layer.merge: the tree it leaves, how it ended, and the hooks it executed.
Layer_merge(tg, l) ==
    LET status == Layer_get_status(tg, l)
        none == [tg |-> tg, hooks |-> <<>>]
    IN  IF status = "RecursionError" THEN none @@ [res |-> status]
        ELSE IF status \notin {"C", "S", "N"} THEN none @@ [res |-> "NotSupported"]
        ELSE IF status = "S" THEN none @@ [res |-> "ok"]
        ELSE LET r == merge_nodes(tg, l, 1)
             IN  IF r.res # "ok" THEN r @@ [hooks |-> <<>>]
                 ELSE r @@ [hooks |-> merge_hooks(l)]

Layer_unmerge(tg, l) ==
    LET status == Layer_get_status(tg, l)
    IN  IF status = "RecursionError" THEN Raised(tg, status)
        ELSE IF status \notin {"C", "S", "N"} THEN Raised(tg, "NotSupported")
        ELSE IF status = "N" THEN Returned(tg)
        ELSE unmerge_nodes(tg, l, 1)

\* ------------------------------------------------------------ construction
Range(s) == {s[i] : i \in DOMAIN s}

\* What get_all_files(node_root) can yield for one layer: each relative path
\* at most once, in walk order.
NodeLists == {SelectSeq(WalkOrder, LAMBDA f : f \in S) : S \in SUBSET Files}

LayerOrder == [i \in 1..NumLayers |-> i]

\* Files.get + File.create_node over the layers constructed in order: the
\* nodes of a relative path are the layers that supply it, oldest first.
RegistryOf(ln) ==
    [f \in Files |-> SelectSeq(LayerOrder, LAMBDA l : f \in Range(ln[l]))]

Max(S) == IF S = {} THEN 0 ELSE CHOOSE x \in S : \A y \in S : y <= x

\* Contents of one relative path are only ever compared with each other, so
\* they are numbered in order of first appearance: over the layers' sources
\* (here), then at the target (in Init).
Canonical(src, f) ==
    \A l \in Layers : src[<<l, f>>] <= 1 + Max({src[<<k, f>>] : k \in 1..(l - 1)})

\* A relative path as a caller spells it: normalized, or with a redundant
\* leading "./".
RelPaths == [name : Files, dot : BOOLEAN]

\* get_all_files(node_root) for layer l over the sources src: os.walk joins
\* the relative directory, "." at the root, with the file name, so every path
\* arrives spelled "./<name>".
get_all_files(src, l) ==
    LET names == SelectSeq(WalkOrder, LAMBDA f : src[<<l, f>>] # 0)
    IN  [i \in DOMAIN names |-> [name |-> names[i], dot |-> TRUE]]

\* File.__init__
File(rel_path) == [rel_path |-> rel_path, nodes |-> <<>>]

\* The index of the first File of fs that 'f.rel_path == rel_path' selects,
\* 0 when the loop ends without one.
Lookup(fs, rel_path) ==
    IF \E i \in DOMAIN fs : fs[i].rel_path = rel_path
    THEN CHOOSE i \in DOMAIN fs :
            /\ fs[i].rel_path = rel_path
            /\ \A j \in 1..(i - 1) : fs[j].rel_path # rel_path
    ELSE 0

\* Files.get looking the path up as it was spelled.
Files_get_verbatim(fs, rel_path) ==
    IF Lookup(fs, rel_path) # 0 THEN [files |-> fs, f |-> Lookup(fs, rel_path)]
    ELSE [files |-> Append(fs, File(rel_path)), f |-> Len(fs) + 1]

\* Files.get: the registry it leaves and the index of the File it returns.
Files_get(fs, rel_path) ==
    LET p == normpath(rel_path)
    IN  IF Lookup(fs, p) # 0 THEN [files |-> fs, f |-> Lookup(fs, p)]
        ELSE [files |-> Append(fs, File(p)), f |-> Len(fs) + 1]

\* File.create_node on the File at index i: the Node of the layer is appended
\* unless the File holds one already.
File_create_node(fs, i, layer) ==
    IF \E k \in DOMAIN fs[i].nodes : fs[i].nodes[k] = layer THEN fs
    ELSE [fs EXCEPT ![i].nodes = Append(@, layer)]

RECURSIVE Layer_nodes(_, _, _, _)
\* '[files.get(f).create_node(self) for f in get_all_files(...)]' from index
\* i of the listing on: the registry it leaves.
Layer_nodes(fs, listing, l, i) ==
    IF i > Len(listing) THEN fs
    ELSE LET g == Files_get(fs, listing[i])
         IN  Layer_nodes(File_create_node(g.files, g.f, l), listing, l, i + 1)

RECURSIVE Constructed(_, _)
\* The registry once the main block has constructed the layers 1..k.
Constructed(src, k) ==
    IF k = 0 THEN <<>>
    ELSE Layer_nodes(Constructed(src, k - 1), get_all_files(src, k), k, 1)

\* File.nodes of the File that a relative path resolves to.
FileNodes(fs) ==
    [f \in Files |->
        LET i == Lookup(fs, [name |-> f, dot |-> FALSE])
        IN  IF i = 0 THEN <<>> ELSE fs[i].nodes]

\* What a command records as its answer when it never called input().
NoPrompt == "(no prompt)"

NoCommand ==
    [op |-> "none", layer |-> 0, file |-> "", confirm |-> NoPrompt, pre |-> "",
     res |-> "", hooks |-> <<>>]

Init ==
    /\ lnodes \in [Layers -> NodeLists]
    /\ nodes = RegistryOf(lnodes)
    /\ source \in [Layers \X Files -> {0} \cup Contents]
    /\ \A l \in Layers, f \in Files : (source[<<l, f>>] # 0) <=> (f \in Range(lnodes[l]))
    /\ \A f \in Files : Canonical(source, f)
    /\ target \in [Files -> TargetStates]
    /\ \A f \in Files :
          /\ nodes[f] = <<>> => target[f] = Absent
          /\ (target[f].kind = "link" /\ target[f].dest.root = "layer")
                => target[f].dest.layer \in Range(nodes[f])
          /\ target[f].content <= 1 + Max({source[<<l, f>>] : l \in Layers})
    /\ last = NoCommand
    /\ layers = LayerOrder
    /\ files = Constructed(source, NumLayers)

\* ---------------------------------------------------------------- commands
\* A command runs in a process of its own: one is started only when none is
\* under way, on a Node the layer holds.
Idle == last = NoCommand
Bound(l, f) == Idle /\ f \in Range(lnodes[l])

\* The record of a command: the method, the Node or Layer it was called on,
\* the answer read at the prompt (NoPrompt when input() was not called), the
\* status the method computed first, how it ended and the hooks it executed.
Cmd(op, l, f, confirm, pre, res, hooks) ==
    [op |-> op, layer |-> l, file |-> f, confirm |-> confirm, pre |-> pre, res |-> res,
     hooks |-> hooks]

\* get_status clearing away a target it finds to be a broken link.
NodeGetStatus_cleaning(l, f) ==
    /\ Bound(l, f)
    /\ LET s == Node_get_status(target, f, l, RecursionLimit)
       IN  /\ last' = Cmd("get_status", l, f, NoPrompt, s, s, <<>>)
           /\ target' = IF s = "N" THEN [target EXCEPT ![f] = Absent] ELSE target
    /\ UNCHANGED <<nodes, lnodes, source, files, layers>>

NodeGetStatus(l, f) ==
    /\ Bound(l, f)
    /\ LET s == Node_get_status(target, f, l, RecursionLimit)
       IN  last' = Cmd("get_status", l, f, NoPrompt, s, s, <<>>)
    /\ UNCHANGED <<nodes, lnodes, source, target, files, layers>>

NodeMerge(l, f) ==
    /\ Bound(l, f)
    /\ LET r == Node_merge(target, f, l)
       IN  /\ target' = r.tg
           /\ last' = Cmd("merge", l, f, NoPrompt,
                          Node_get_status(target, f, l, RecursionLimit), r.res, <<>>)
    /\ UNCHANGED <<nodes, lnodes, source, files, layers>>

NodeUnmerge(l, f) ==
    /\ Bound(l, f)
    /\ LET r == Node_unmerge(target, f, l)
       IN  /\ target' = r.tg
           /\ last' = Cmd("unmerge", l, f, NoPrompt,
                          Node_get_status(target, f, l, RecursionLimit), r.res, <<>>)
    /\ UNCHANGED <<nodes, lnodes, source, files, layers>>

NodeForceOut(l, f, confirm) ==
    /\ Bound(l, f)
    /\ LET r == Node_force_out(target, f, l, confirm)
       IN  /\ target' = r.tg
           /\ last' = Cmd("force_out", l, f, IF r.asked THEN confirm ELSE NoPrompt,
                          Node_get_status(target, f, l, RecursionLimit), r.res, <<>>)
    /\ UNCHANGED <<nodes, lnodes, source, files, layers>>

NodeForceIn(l, f, confirm) ==
    /\ Bound(l, f)
    /\ LET r == Node_force_in(target, f, l, confirm)
       IN  /\ target' = r.tg
           /\ last' = Cmd("force_in", l, f, IF r.asked THEN confirm ELSE NoPrompt,
                          Node_get_status(target, f, l, RecursionLimit), r.res, <<>>)
    /\ UNCHANGED <<nodes, lnodes, source, files, layers>>

LayerGetStatus(l) ==
    /\ Idle
    /\ LET s == Layer_get_status(target, l)
       IN  last' = Cmd("layer_get_status", l, "", NoPrompt, s, s, <<>>)
    /\ UNCHANGED <<nodes, lnodes, source, target, files, layers>>

LayerMerge(l) ==
    /\ Idle
    /\ LET r == Layer_merge(target, l)
       IN  /\ target' = r.tg
           /\ last' = Cmd("layer_merge", l, "", NoPrompt,
                          Layer_get_status(target, l), r.res, r.hooks)
    /\ UNCHANGED <<nodes, lnodes, source, files, layers>>

LayerUnmerge(l) ==
    /\ Idle
    /\ LET r == Layer_unmerge(target, l)
       IN  /\ target' = r.tg
           /\ last' = Cmd("layer_unmerge", l, "", NoPrompt,
                          Layer_get_status(target, l), r.res, <<>>)
    /\ UNCHANGED <<nodes, lnodes, source, files, layers>>

\* The command has printed its outcome and its process ends.
Exit ==
    /\ ~Idle
    /\ last' = NoCommand
    /\ UNCHANGED <<nodes, lnodes, source, target, files, layers>>

Next ==
    \/ \E l \in Layers, f \in Files : NodeGetStatus(l, f)
    \/ \E l \in Layers, f \in Files : NodeMerge(l, f)
    \/ \E l \in Layers, f \in Files : NodeUnmerge(l, f)
    \/ \E l \in Layers, f \in Files, confirm \in Answers : NodeForceOut(l, f, confirm)
    \/ \E l \in Layers, f \in Files, confirm \in Answers : NodeForceIn(l, f, confirm)
    \/ \E l \in Layers : LayerGetStatus(l)
    \/ \E l \in Layers : LayerMerge(l)
    \/ \E l \in Layers : LayerUnmerge(l)
    \/ Exit

Spec == Init /\ [][Next]_vars

\* ------------------------------------------------- building the registry
\* The main block before any command: the layer directories are on disk, the
\* registry and the list of layers are empty.  Construction reads directory
\* listings only, so the targets are left out (an empty HOME).
InitReg ==
    /\ source \in [Layers \X Files -> {0} \cup Contents]
    /\ \A f \in Files : Canonical(source, f)
    /\ target = [f \in Files |-> Absent]
    /\ lnodes = [l \in Layers |-> <<>>]
    /\ nodes = [f \in Files |-> <<>>]
    /\ files = <<>>
    /\ layers = <<>>
    /\ last = NoCommand

\* layers += [Layer(path, files)]: Layer.__init__ for the next directory.
LayerInit ==
    /\ Len(layers) < NumLayers
    /\ LET l == Len(layers) + 1
           listing == get_all_files(source, l)
       IN  /\ files' = Layer_nodes(files, listing, l, 1)
           /\ lnodes' = [lnodes EXCEPT ![l] = [i \in DOMAIN listing |-> listing[i].name]]
           /\ layers' = Append(layers, l)
    /\ nodes' = FileNodes(files')
    /\ UNCHANGED <<source, target, last>>

\* files.get(rel_path), called with a path spelled either way.
FilesGet(rel_path) ==
    /\ files' = Files_get(files, rel_path).files
    /\ nodes' = FileNodes(files')
    /\ UNCHANGED <<lnodes, source, target, last, layers>>

\* files.get(rel_path).create_node(layer) for a layer that exists.
CreateNode(rel_path, l) ==
    /\ l \in Range(layers)
    /\ LET g == Files_get(files, rel_path)
       IN  files' = File_create_node(g.files, g.f, l)
    /\ nodes' = FileNodes(files')
    /\ UNCHANGED <<lnodes, source, target, last, layers>>

NextReg ==
    \/ LayerInit
    \/ \E rel_path \in RelPaths : FilesGet(rel_path)
    \/ \E rel_path \in RelPaths, l \in Layers : CreateNode(rel_path, l)

SpecReg == InitReg /\ [][NextReg]_vars

\* ================================================================== claims
Statuses == {"N", "O", "S", "C", "!"}

\* What get_status() of the Node of layer l for path f yields now.
NodeStatus(l, f) == Node_get_status(target, f, l, RecursionLimit)
LayerStatus(l) == Layer_get_status(target, l)

\* C1: in every reachable state and for every tracked file, at most one of
\* the Nodes bound to it reports Symlinked or Identical: while one Node
\* reports either, every other Node of the file reports Owned.
C1_AtMostOneClaimant ==
    \A f \in Files : \A l1, l2 \in Range(nodes[f]) :
        (l1 # l2 /\ NodeStatus(l1, f) \in {"S", "C"}) => NodeStatus(l2, f) = "O"

\* C2: every call of Node.get_status() returns a status: the recursion into
\* the siblings' get_status() never runs into the recursion limit, whatever
\* the target and however many siblings the file has.
C2_GetStatusReturns ==
    last.op = "get_status" => last.res \in Statuses

\* The first three cases of the decision, read off the filesystem.
LinkedTo(l, f) ==
    target[f].kind = "link" /\ normpath(target[f].dest) = normpath(node_path(l))
SameContent(l, f) ==
    target[f].kind = "file" /\ target[f].content = source[<<l, f>>]

\* The ordered decision of the specification, with a sibling's Symlinked or
\* Identical read off the filesystem rather than computed by recursion.
Decision(l, f) ==
    IF ~isfile(target, f) THEN "N"
    ELSE IF LinkedTo(l, f) THEN "S"
    ELSE IF SameContent(l, f) THEN "C"
    ELSE IF \E k \in Range(nodes[f]) \ {l} : LinkedTo(k, f) \/ SameContent(k, f) THEN "O"
    ELSE "!"

\* C4: Node.get_status() returns the ordered decision over the filesystem
\* (Missing, else Symlinked, else Identical, else Owned if a sibling is
\* Symlinked or Identical, else Conflicted) for every target and sibling set.
C4_StatusIsDecision ==
    last.op = "get_status" => last.res = Decision(last.layer, last.file)

\* C5: merge() on a Node whose status is Missing, Identical or Symlinked
\* completes without error and leaves the target a symbolic link to the
\* node's source path, so that get_status() is Symlinked.
C5_MergeLinks ==
    (last.op = "merge" /\ last.pre \in {"N", "C", "S"}) =>
        /\ last.res = "ok"
        /\ LinkedTo(last.layer, last.file)
        /\ NodeStatus(last.layer, last.file) = "S"

\* C3: merge() and unmerge() called on a Node that is Owned or Conflicted,
\* or on a Layer that is Owned, raise the 'Not supported' exception and leave
\* every target and every source as it was.
C3_GuardedTransitions ==
    [][(\/ last'.op \in {"merge", "unmerge"} /\ last'.pre \in {"O", "!"}
        \/ last'.op \in {"layer_merge", "layer_unmerge"} /\ last'.pre = "O")
          => (last'.res = "NotSupported" /\ target' = target /\ source' = source)]_vars

\* C3 witness: an unmerge of an Owned Node has been refused.
C3_Witness ==
    last.op = "unmerge" /\ last.pre = "O" /\ last.res = "NotSupported"

\* C6: after a merge() that succeeded, on a Node or on a Layer, a second
\* merge() succeeds too, changes no target, and the status is Symlinked
\* after the first call as after the second.
C6_MergeIdempotent ==
    /\ (last.op = "merge" /\ last.res = "ok") =>
          LET again == Node_merge(target, last.file, last.layer)
          IN  /\ again.res = "ok"
              /\ again.tg = target
              /\ NodeStatus(last.layer, last.file) = "S"
    /\ (last.op = "layer_merge" /\ last.res = "ok") =>
          LET again == Layer_merge(target, last.layer)
          IN  /\ again.res = "ok"
              /\ again.tg = target
              /\ LayerStatus(last.layer) = "S"

\* C6 witness: a Layer of two Nodes that was Missing has been merged.
C6_Witness ==
    /\ last.op = "layer_merge" /\ last.res = "ok" /\ last.pre = "N"
    /\ Len(lnodes[last.layer]) = 2

\* C7: from a start status of Missing, Identical or Symlinked, merge()
\* followed by unmerge() ends with status Missing and with the target(s)
\* removed from the home tree, on a Node and on a Layer (read here for the
\* layers that hold at least one Node).
C7_RoundTrip ==
    /\ (last.op = "merge" /\ last.pre \in {"N", "C", "S"}) =>
          LET u == Node_unmerge(target, last.file, last.layer)
          IN  /\ u.res = "ok"
              /\ u.tg[last.file] = Absent
              /\ Node_get_status(u.tg, last.file, last.layer, RecursionLimit) = "N"
    /\ (/\ last.op = "layer_merge" /\ last.pre \in {"N", "C", "S"}
        /\ lnodes[last.layer] # <<>>) =>
          LET u == Layer_unmerge(target, last.layer)
          IN  /\ u.res = "ok"
              /\ \A f \in Range(lnodes[last.layer]) : u.tg[f] = Absent
              /\ Layer_get_status(u.tg, last.layer) = "N"

\* C8: get_status() of a Node and of a Layer changes no target, no source
\* and no node list, and a second call right after it returns what the
\* first returned.
C8_GetStatusPure ==
    [][/\ last'.op = "get_status" =>
            /\ target' = target /\ source' = source
            /\ nodes' = nodes /\ lnodes' = lnodes
            /\ Node_get_status(target', last'.file, last'.layer, RecursionLimit) = last'.res
       /\ last'.op = "layer_get_status" =>
            /\ target' = target /\ source' = source
            /\ nodes' = nodes /\ lnodes' = lnodes
            /\ Layer_get_status(target', last'.layer) = last'.res]_vars

\* C8 witness: a Node's status was queried and came out Owned, which takes
\* the evaluation of a sibling.
C8_Witness ==
    last.op = "get_status" /\ last.res = "O"

\* The statuses of a Layer's Nodes, in list order.
NodeStatuses(l) == [i \in DOMAIN lnodes[l] |-> NodeStatus(l, lnodes[l][i])]
Min(S) == CHOOSE x \in S : \A y \in S : x <= y

\* The Nodes at which the aggregation stops.
Deciding(l) == {i \in DOMAIN lnodes[l] : NodeStatuses(l)[i] \in {"N", "!", "O"}}

\* The Nodes whose status the aggregation reads: up to the first deciding one.
Scanned(l) == IF Deciding(l) = {} THEN DOMAIN lnodes[l] ELSE 1..Min(Deciding(l))

Aggregate(l) ==
    IF Deciding(l) # {}
    THEN IF NodeStatuses(l)[Min(Deciding(l))] = "O" THEN "O" ELSE "N"
    ELSE IF \E i \in DOMAIN lnodes[l] : NodeStatuses(l)[i] = "C" THEN "C" ELSE "S"

\* C9: Layer.get_status() aggregates in list order: the first Node that is
\* Missing or Conflicted makes it Missing, the first that is Owned makes it
\* Owned, whichever comes first; without such a Node it is Identical if some
\* Node is Identical and Symlinked otherwise.  (Stated for the calls in which
\* every Node that is read returns a status.)
C9_LayerAggregate ==
    (/\ last.op = "layer_get_status"
     /\ \A i \in Scanned(last.layer) : NodeStatuses(last.layer)[i] \in Statuses)
        => last.res = Aggregate(last.layer)

\* C9 witness: a Layer whose Nodes are Identical, then Missing, reported Missing.
C9_Witness ==
    /\ last.op = "layer_get_status" /\ last.res = "N"
    /\ NodeStatuses(last.layer) = <<"C", "N">>

\* The answers the prompt takes for a refusal.
NegativeTokens == {"n", "N", "No", "no"}

\* C10: force_out() on a Conflicted Node: with any answer that is not a
\* negative token the target becomes a symbolic link to the node's source,
\* the sources stay as they were and the status is Symlinked; with a negative
\* token nothing changes and the status stays Conflicted.
C10_ForceOut ==
    [][(last'.op = "force_out" /\ last'.pre = "!") =>
          /\ last'.res = "ok"
          /\ source' = source /\ nodes' = nodes
          /\ IF last'.confirm \in NegativeTokens
             THEN /\ target' = target
                  /\ Node_get_status(target', last'.file, last'.layer, RecursionLimit) = "!"
             ELSE /\ target' = [target EXCEPT ![last'.file] = Symlink(node_path(last'.layer))]
                  /\ Node_get_status(target', last'.file, last'.layer, RecursionLimit) = "S"]_vars

\* C10 witness: force_out() on a Conflicted Node, confirmed with "NO", has
\* replaced the target by a link.
C10_Witness ==
    /\ last.op = "force_out" /\ last.pre = "!" /\ last.confirm = "NO"
    /\ last.res = "ok" /\ target[last.file].kind = "link"

\* C11: force_in() on a Conflicted Node, confirmed (any answer that is not a
\* negative token), completes and leaves the layer's source with the content
\* of the target, the target itself being as it was.
C11_ForceInAdopts ==
    (last.op = "force_in" /\ last.pre = "!" /\ last.confirm \notin NegativeTokens) =>
        /\ last.res = "ok"
        /\ target[last.file].kind = "file" =>
              source[<<last.layer, last.file>>] = target[last.file].content

\* C12: force_out() and force_in() on a Node that is Missing, Owned, Symlinked
\* or Identical raise "Not supported" without having asked for confirmation,
\* and leave every target and every source as it was.
C12_ForceNeedsConflict ==
    [][(last'.op \in {"force_out", "force_in"} /\ last'.pre \in {"N", "O", "S", "C"})
          => /\ last'.res = "NotSupported"
             /\ last'.confirm = NoPrompt
             /\ target' = target
             /\ source' = source]_vars

C12_Witness ==
    /\ last.op \in {"force_out", "force_in"}
    /\ last.pre = "C"
    /\ last.res = "NotSupported"
    /\ target[last.file].kind = "file"

C14_AllOrNothing ==
    [][(last'.op \in {"layer_merge", "layer_unmerge"} /\ last'.res = "NotSupported")
          => target' = target]_vars

\* C15: no merge() or unmerge(), called on a Node or on its Layer, removes or
\* replaces a target that is, when the call is made, a symbolic link to the
\* source file of a different layer.
C15_ForeignLinkKept ==
    [][\A f \in Files :
          (/\ last'.op \in {"merge", "unmerge", "layer_merge", "layer_unmerge"}
           /\ target[f].kind = "link"
           /\ target[f].dest.root = "layer"
           /\ target[f].dest.layer # last'.layer
           /\ source[<<target[f].dest.layer, f>>] # 0)
             => target'[f] = target[f]]_vars

C15_Witness ==
    /\ last.op \in {"unmerge", "layer_unmerge"}
    /\ \E f \in Range(lnodes[last.layer]) :
          /\ target[f].kind = "link"
          /\ target[f].dest.root = "layer"
          /\ target[f].dest.layer # last.layer
          /\ source[<<target[f].dest.layer, f>>] = source[<<last.layer, f>>]

C17_ConflictShared ==
    \A f \in Files : \A l1, l2 \in Range(nodes[f]) :
        NodeStatus(l1, f) = "!" => NodeStatus(l2, f) = "!"

C17_Witness ==
    /\ last.op = "get_status"
    /\ last.res = "!"
    /\ \A l \in Range(nodes[last.file]) : NodeStatus(l, last.file) = "!"

\* C18: however layers are constructed and the registry is asked, it holds at
\* most one File per normalized relative path, stored normalized, and a File
\* holds at most one Node per layer.
C18_RegistryUnique ==
    /\ \A i, j \in DOMAIN files :
          normpath(files[i].rel_path) = normpath(files[j].rel_path) => i = j
    /\ \A i \in DOMAIN files :
          /\ files[i].rel_path = normpath(files[i].rel_path)
          /\ \A a, b \in DOMAIN files[i].nodes :
                files[i].nodes[a] = files[i].nodes[b] => a = b

C18_Witness ==
    /\ layers = LayerOrder
    /\ \E i \in DOMAIN files : Len(files[i].nodes) = NumLayers
    /\ \A f \in Files : nodes[f] = RegistryOf(lnodes)[f]

=============================================================================
